---- MODULE Spec2Model ----
(***************************************************************************)
(* Model of the EgoLang-DL data conversion script                          *)
(* (mimicplay/scripts/aloha_process/aloha_to_robomimicv2.py) and of the    *)
(* training entry point (mimicplay/scripts/pl_train.py).                   *)
(*                                                                         *)
(* Three specifications share the variables of this module:                *)
(*   SpecWin   - the pure trajectory-window computation                    *)
(*               (get_future_points applied to every suffix fk[j:]);       *)
(*   Spec      - one run of the conversion script: validation pass,        *)
(*               output creation, per-episode assembly, split, message;    *)
(*   SpecTrain - one run of pl_train.py: the script's entry point, then    *)
(*               main: the config up to its lock,                          *)
(*               then the guarded train / eval call and what is printed.   *)
(* Python sequences are 0-based, TLA+ sequences 1-based: arr[i] of the     *)
(* source is arr[i + 1] here.                                              *)
(***************************************************************************)
EXTENDS Integers, Sequences, FiniteSets, TLC

VARIABLES
    \* ---- trajectory windows (SpecWin)
    w_pc,               \* "idle" | "start" | "done"
    arr,                \* fk_positions: sequence of 3-vectors
    gap,                \* POINT_GAP handed to get_future_points
    count,              \* FUTURE_POINTS_COUNT handed to get_future_points
    future_traj_data,   \* the list comprehension of lines 141-143
    \* ---- conversion run (Spec)
    pc,                 \* position of the script
    args,               \* parsed command line: dataset, data_type, extrinsics, out
    listing,            \* os.listdir(args.dataset) of line 93: sequence of directory entries
    listing2,           \* os.listdir(args.dataset) of line 103, taken after the output exists
    vi,                 \* position of the validation loop (line 93), 1-based
    ai,                 \* position of the assembly loop (line 103), 1-based
    out,                \* state of the output file: "absent" | "open" | "closed"
    data,               \* groups under "data", in creation order
    opened,             \* every h5py.File(.., "r") attempted: <<pass, entry name>>
    err,                \* exception that ended the run, "none" if none
    split_seen,         \* demo names the split partitioner was given
    printed,            \* "Successful Conversion!" was printed
    \* ---- training entry point (SpecTrain)
    t_pc,               \* position of main
    t_args,             \* parsed command line of pl_train
    config,             \* the config object
    t_call,             \* what the train / eval call of lines 136, 139 did
    stdout              \* what main printed, in order

wvars == <<w_pc, arr, gap, count, future_traj_data>>
cvars == <<pc, args, listing, listing2, vi, ai, out, data, opened, err, split_seen, printed>>
tvars == <<t_pc, t_args, config, t_call, stdout>>
vars == <<w_pc, arr, gap, count, future_traj_data,
          pc, args, listing, listing2, vi, ai, out, data, opened, err, split_seen, printed,
          t_pc, t_args, config, t_call, stdout>>

(***************************************************************************)
(* Bounds of the model                                                     *)
(***************************************************************************)
MaxN == 4
MaxGap == 3
MaxCount == 3
MaxFiles == 2

(***************************************************************************)
(* Python helpers                                                          *)
(***************************************************************************)
Min(a, b) == IF a <= b THEN a ELSE b

\* range(start, stop, step) for step >= 1, as a sequence
RECURSIVE PyRange(_, _, _)
PyRange(start, stop, step) ==
    IF start >= stop THEN <<>>
    ELSE <<start>> \o PyRange(start + step, stop, step)

\* arr[j:] for 0 <= j <= len(arr)
PySliceFrom(a, j) == SubSeq(a, j + 1, Len(a))

(***************************************************************************)
(* get_future_points (lines 43-53)                                         *)
(***************************************************************************)
\* (mutant) wraparound instead of clamp-to-last
index_current_wrap(a, i) == i % Len(a)

\* line 48: index_current = min(len(arr) - 1, i)
index_current(a, i) == Min(Len(a) - 1, i)

\* the loop of lines 46-51 over the indices `is`; future_traj.extend(point)
RECURSIVE FutureTrajLoop(_, _)
FutureTrajLoop(a, is) ==
    IF is = <<>> THEN <<>>
    ELSE a[index_current(a, Head(is)) + 1] \o FutureTrajLoop(a, Tail(is))

get_future_points(a, POINT_GAP, FUTURE_POINTS_COUNT) ==
    FutureTrajLoop(a, PyRange(POINT_GAP, (FUTURE_POINTS_COUNT + 1) * POINT_GAP, POINT_GAP))

\* lines 141-143: one window per j in range(len(fk_positions)), on the suffix fk_positions[j:]
FutureTrajData(fk_positions, POINT_GAP, FUTURE_POINTS_COUNT) ==
    [j1 \in 1..Len(fk_positions) |->
        get_future_points(PySliceFrom(fk_positions, j1 - 1), POINT_GAP, FUTURE_POINTS_COUNT)]

(***************************************************************************)
(* Strings are sequences of one-character strings, so that the substring   *)
(* test, os.path.join and str.split are computed as Python computes them.  *)
(***************************************************************************)
S_episode == <<"e","p","i","s","o","d","e">>
S_backup == <<"b","a","c","k","u","p">>
S_notes_txt == <<"n","o","t","e","s",".","t","x","t">>
S_hdf5 == <<"h","d","f","5">>
S_h5 == <<"h","5">>
S_demo_ == <<"d","e","m","o","_">>
S_out == <<"o","u","t">>
S_converted_hdf5 == <<"c","o","n","v","e","r","t","e","d",".","h","d","f","5">>
S_raw == <<"/","r","a","w">>
S_episodes_dir == <<"/","e","p","i","s","o","d","e","s","/">>

\* needle in hay (Python `in` on str)
StrIn(needle, hay) ==
    \E i \in 0..(Len(hay) - Len(needle)) : SubSeq(hay, i + 1, i + Len(needle)) = needle

\* os.path.join(a, b) for two components
os_path_join(a, b) ==
    IF b # <<>> /\ Head(b) = "/" THEN b
    ELSE IF a = <<>> \/ a[Len(a)] = "/" THEN a \o b
    ELSE a \o <<"/">> \o b

\* s.split(sep) for a one-character separator
RECURSIVE StrSplit(_, _)
StrSplit(s, sep) ==
    IF \A i \in 1..Len(s) : s[i] # sep THEN <<s>>
    ELSE LET k == CHOOSE i \in 1..Len(s) :
                      s[i] = sep /\ \A j \in 1..(i - 1) : s[j] # sep
         IN <<SubSeq(s, 1, k - 1)>> \o StrSplit(SubSeq(s, k + 1, Len(s)), sep)

\* f"demo_{demo_number}" (line 111)
DemoGroupName(demo_number) == S_demo_ \o demo_number

(***************************************************************************)
(* Directory entries and episode files                                     *)
(*                                                                         *)
(* An entry of the source directory: its file name, whether it is a        *)
(* directory, whether h5py.File(.., "r") succeeds on it, and (when it      *)
(* opens) the content of the HDF5 file: the datasets present, the rows of  *)
(* "action" and "observations/qpos" (a row is abstracted to an integer id  *)
(* plus the common column count J), and the frame counts of the two image  *)
(* streams.  stem/num/ext record how the name was built; the script never  *)
(* reads them.                                                             *)
(***************************************************************************)
AllKeys == {"action", "cam_high", "cam_right_wrist", "qpos"}

Rows(base, T) == [t \in 1..T |-> base + t]

NoContent == [keys |-> {}, action |-> <<>>, qpos |-> <<>>, J |-> 0,
              cam_high |-> 0, cam_right_wrist |-> 0]

Content(keys, Ta, Tq, Th, Tw, J) ==
    [keys |-> keys, action |-> Rows(10, Ta), qpos |-> Rows(0, Tq), J |-> J,
     cam_high |-> Th, cam_right_wrist |-> Tw]

GoodContent(T) == Content(AllKeys, T, T, T, T, 14)

\* <stem>_<num>.<ext>
NumberedName(stem, num, ext) == stem \o <<"_">> \o num \o <<".">> \o ext

Numbered(stem, num, ext, opens, h5) ==
    [name |-> NumberedName(stem, num, ext), numbered |-> TRUE, num |-> num,
     isdir |-> FALSE, opens |-> opens, h5 |-> h5]

Plain(name, isdir, opens, h5) ==
    [name |-> name, numbered |-> FALSE, num |-> <<>>,
     isdir |-> isdir, opens |-> opens, h5 |-> h5]

Entries ==
    { Numbered(S_episode, <<"3">>, S_hdf5, TRUE, GoodContent(6)),
      Numbered(S_episode, <<"3">>, S_h5, TRUE, GoodContent(2)),
      Numbered(S_episode, <<"7">>, S_hdf5, TRUE, GoodContent(2)),
      \* truncated or non-HDF5 file: does not open
      Numbered(S_episode, <<"5">>, S_hdf5, FALSE, NoContent),
      \* opens, lacks a required field
      Numbered(S_episode, <<"4">>, S_hdf5, TRUE,
               Content(AllKeys \ {"action"}, 2, 2, 2, 2, 14)),
      Numbered(S_episode, <<"1">>, S_hdf5, TRUE,
               Content(AllKeys \ {"cam_right_wrist"}, 2, 2, 2, 2, 14)),
      \* opens, wrong joint dimension
      Numbered(S_episode, <<"6">>, S_hdf5, TRUE, Content(AllKeys, 2, 2, 2, 2, 10)),
      \* opens, arrays of different leading lengths
      Numbered(S_episode, <<"8">>, S_hdf5, TRUE, Content(AllKeys, 2, 3, 1, 2, 14)),
      \* a well-formed HDF5 file whose name is not an episode name
      Numbered(S_backup, <<"2">>, S_hdf5, TRUE, GoodContent(2)),
      \* an episode file without "_<n>"
      Plain(S_episode \o <<".">> \o S_h5, FALSE, TRUE, GoodContent(2)),
      \* a subdirectory and a text file
      Plain(S_episode \o <<"_", "9">>, TRUE, FALSE, NoContent),
      Plain(S_notes_txt, FALSE, FALSE, NoContent) }

\* sequences of at most n entries with pairwise different names
RECURSIVE Listings(_)
Listings(n) ==
    IF n = 0 THEN {<<>>}
    ELSE LET shorter == Listings(n - 1)
         IN shorter \cup
            { Append(l, e) : l \in {x \in shorter : Len(x) = n - 1}, e \in Entries }

DistinctNames(l) == \A i, j \in 1..Len(l) : i # j => l[i].name # l[j].name

(***************************************************************************)
(* Command line (lines 59-87)                                              *)
(***************************************************************************)
DataTypes == {"hand", "robot"}          \* choices of --data-type (line 84)
Datasets == {S_raw, S_episodes_dir}     \* --dataset: a source directory path
ExtrinsicsArgs == {"calibA", "nokey"}   \* --extrinsics: a registered key, an unknown one

\* --out (lines 75-79): whether the output file lies in the source directory,
\* and its file name.  The name is none of the names of Entries: the output
\* path is not one of the source files.
OutArgs ==
    { [in_dataset |-> FALSE, name |-> S_converted_hdf5],
      [in_dataset |-> TRUE, name |-> S_converted_hdf5],
      [in_dataset |-> TRUE, name |-> NumberedName(S_episode, S_out, S_hdf5)] }

\* The output file as a directory entry while it is open for writing
\* (lines 99-151): a regular file that opens as HDF5 and holds the group
\* "data", none of the episode datasets.
OutEntry(a) == Plain(a.out.name, FALSE, TRUE, NoContent)

InsertAt(l, k, e) == SubSeq(l, 1, k) \o <<e>> \o SubSeq(l, k + 1, Len(l))

\* What os.listdir(args.dataset) may return at line 103, given what it
\* returned at line 93: the same entries, plus the output file, at any
\* position, when args.out lies in the source directory.
SecondListings(l, a) ==
    IF a.out.in_dataset
    THEN {InsertAt(l, k, OutEntry(a)) : k \in 0..Len(l)}
    ELSE {l}

\* the stride and horizon of each source type (lines 134-139) and the
\* defaults of get_future_points (line 43)
HAND_POINT_GAP == 4
HAND_FUTURE_POINTS_COUNT == 10
ROBOT_POINT_GAP == 15
ROBOT_FUTURE_POINTS_COUNT == 10
DEFAULT_POINT_GAP == 15
DEFAULT_FUTURE_POINTS_COUNT == 10
\* the stored label of each source type (lines 112-115)
HAND_LABEL == 1
ROBOT_LABEL == 0
\* column slices qpos[:, 7:] and qpos[:, 7:13] (lines 127-128), joints of the chain
JOINT_START == 7
JOINT_STOP == 13
\* the chain takes the 6 joint columns the script feeds it
CHAIN_JOINTS == JOINT_STOP - JOINT_START

(***************************************************************************)
(* is_valid_path (lines 55-56): the test is made on the joined path        *)
(***************************************************************************)
is_valid_path(path, isdir) == ~isdir /\ StrIn(S_episode, path)

\* is_valid_path(os.path.join(args.dataset, file)) of lines 95 and 104
ValidEntry(dataset, e) == is_valid_path(os_path_join(dataset, e.name), e.isdir)

(***************************************************************************)
(* Kinematics and frame change (lines 128-129, 149-150).                   *)
(* forward_kinematics is pytorch_kinematics on the 6-joint chain: it       *)
(* raises unless it is given 6 joint columns, and returns one position per *)
(* row.  A position is abstracted to a 3-vector of integers determined by  *)
(* the row.  ee_pose_to_cam_frame and EXTRINSICS belong to simarUtils: the *)
(* calibration is applied to every position independently.                 *)
(***************************************************************************)
Max(a, b) == IF a >= b THEN a ELSE b

\* number of columns of x[:, lo:hi] for an array of J columns
SliceCols(J, lo, hi) == Max(0, Min(hi, J) - lo)

FKPoint(row) == <<row, row + 1, row + 2>>

forward_kinematics(rows) == [t \in 1..Len(rows) |-> FKPoint(rows[t])]

EXTRINSICS == [calibA |-> <<0, 0, 1>>]

ee_pose_to_cam_frame(positions, T) ==
    [t \in 1..Len(positions) |->
        <<positions[t][1] + T[1], positions[t][2] + T[2], positions[t][3] + T[3]>>]

(***************************************************************************)
(* One demo group (lines 110-151).  `written` lists the members of the     *)
(* group that exist; a member that was not written keeps its blank value.  *)
(***************************************************************************)
DemoFields == {"label", "num_samples", "obs", "front_img_1", "right_wrist_img",
               "joint_positions", "ee_pose", "actions", "actions_joints",
               "actions_xyz"}

NoArray == [rows |-> <<>>, cols |-> 0]

NewGroup(name, src) ==
    [name |-> name, src |-> src, written |-> {},
     label |-> -1, num_samples |-> -1,
     front_img_1 |-> -1, right_wrist_img |-> -1,
     joint_positions |-> NoArray, ee_pose |-> <<>>,
     actions |-> <<>>, actions_joints |-> NoArray, actions_xyz |-> <<>>]

\* lines 112-115
LabelOf(data_type) == IF data_type = "hand" THEN HAND_LABEL ELSE ROBOT_LABEL

\* (mutant) the stride of the generator's defaults, whatever the type
PointGapOf_default(data_type) == DEFAULT_POINT_GAP

\* lines 134-139
PointGapOf(data_type) == IF data_type = "hand" THEN HAND_POINT_GAP ELSE ROBOT_POINT_GAP
FuturePointsCountOf(data_type) ==
    IF data_type = "hand" THEN HAND_FUTURE_POINTS_COUNT ELSE ROBOT_FUTURE_POINTS_COUNT

\* lines 141-143: the call of get_future_points with the caller's parameters
WindowsFor(fk_positions, data_type) ==
    FutureTrajData(fk_positions, PointGapOf(data_type), FuturePointsCountOf(data_type))

\* (mutant) shape[1] instead of shape[0]
NumSamples_cols(h5) == h5.J

\* line 116
NumSamples(h5) == Len(h5.action)

\* The body of the `with` of line 109 after create_group succeeded: the
\* writes in source order, up to the first statement that raises.
\* Result: the group as it stands, and the exception ("none" if none).
FillGroup(g0, h5, a) ==
    LET g1 == [g0 EXCEPT !.label = LabelOf(a.data_type),
                         !.written = @ \cup {"label"}]
        g2 == [g1 EXCEPT !.num_samples = NumSamples(h5),
                         !.written = @ \cup {"num_samples", "obs"}]
        g3 == [g2 EXCEPT !.front_img_1 = h5.cam_high,
                         !.written = @ \cup {"front_img_1"}]
        g4 == [g3 EXCEPT !.right_wrist_img = h5.cam_right_wrist,
                         !.written = @ \cup {"right_wrist_img"}]
        g5 == [g4 EXCEPT !.joint_positions =
                             [rows |-> h5.qpos, cols |-> SliceCols(h5.J, JOINT_START, h5.J)],
                         !.written = @ \cup {"joint_positions"}]
        fk_obs == ee_pose_to_cam_frame(forward_kinematics(h5.qpos), EXTRINSICS[a.extrinsics])
        g6 == [g5 EXCEPT !.ee_pose = fk_obs,
                         !.written = @ \cup {"ee_pose"}]
        g7 == [g6 EXCEPT !.actions = WindowsFor(fk_obs, a.data_type),
                         !.written = @ \cup {"actions"}]
        g8 == [g7 EXCEPT !.actions_joints =
                             [rows |-> h5.action, cols |-> SliceCols(h5.J, JOINT_START, h5.J)],
                         !.written = @ \cup {"actions_joints"}]
        fk_act == ee_pose_to_cam_frame(forward_kinematics(h5.action), EXTRINSICS[a.extrinsics])
        g9 == [g8 EXCEPT !.actions_xyz = fk_act,
                         !.written = @ \cup {"actions_xyz"}]
    IN  IF "action" \notin h5.keys THEN [group |-> g1, err |-> "KeyError"]               \* 116
        ELSE IF "cam_high" \notin h5.keys THEN [group |-> g2, err |-> "KeyError"]        \* 125
        ELSE IF "cam_right_wrist" \notin h5.keys THEN [group |-> g3, err |-> "KeyError"] \* 126
        ELSE IF "qpos" \notin h5.keys THEN [group |-> g4, err |-> "KeyError"]            \* 127
        ELSE IF SliceCols(h5.J, JOINT_START, JOINT_STOP) # CHAIN_JOINTS
             THEN [group |-> g5, err |-> "ShapeMismatch"]                                \* 128
        ELSE IF a.extrinsics \notin DOMAIN EXTRINSICS
             THEN [group |-> g5, err |-> "KeyError"]                                     \* 129
        ELSE [group |-> g9, err |-> "none"]

Complete(g) == g.written = DemoFields

\* (mutant) the first piece of the split instead of the second
demo_number_first(aloha_demo) == StrSplit(StrSplit(aloha_demo, "_")[1], ".")[1]

\* aloha_demo.split("_")[1].split(".")[0] (line 110); IndexError when there is no "_"
HasDemoNumber(aloha_demo) == Len(StrSplit(aloha_demo, "_")) >= 2
demo_number(aloha_demo) == StrSplit(StrSplit(aloha_demo, "_")[2], ".")[1]

GroupNames(d) == {d[i].name : i \in 1..Len(d)}

\* (mutant) require_group semantics: an existing name is accepted
CreateGroupRaises_never(d, name) == FALSE

\* data_group.create_group(name) raises ValueError when the name exists (line 111)
CreateGroupRaises(d, name) == name \in GroupNames(d)

(***************************************************************************)
(* The conversion run (lines 92-167)                                       *)
(***************************************************************************)
WinIdle ==
    /\ w_pc = "idle" /\ arr = <<>> /\ gap = 0 /\ count = 0 /\ future_traj_data = <<>>

TrainIdle ==
    /\ t_pc = "idle" /\ t_args = <<>> /\ config = <<>>
    /\ t_call = [fn |-> "none", raised |-> "none", value |-> "None"] /\ stdout = <<>>

ConvIdle ==
    /\ pc = "idle" /\ args = <<>> /\ listing = <<>> /\ listing2 = <<>> /\ vi = 0 /\ ai = 0
    /\ out = "absent" /\ data = <<>> /\ opened = {} /\ err = "none"
    /\ split_seen = [ran |-> FALSE, demos |-> {}] /\ printed = FALSE

Init ==
    /\ WinIdle /\ TrainIdle
    /\ pc = "validate"
    /\ args \in [dataset : Datasets, data_type : DataTypes, extrinsics : ExtrinsicsArgs,
                  out : OutArgs]
    /\ listing \in {l \in Listings(MaxFiles) : DistinctNames(l)}
    /\ listing2 = <<>>
    /\ vi = 1
    /\ ai = 0
    /\ out = "absent"
    /\ data = <<>>
    /\ opened = {}
    /\ err = "none"
    /\ split_seen = [ran |-> FALSE, demos |-> {}]
    /\ printed = FALSE

\* (mutant) the validation loop swallows a failed open and goes on
ValidateStep_swallow ==
    /\ pc = "validate"
    /\ vi <= Len(listing)
    /\ LET file == listing[vi] IN
        IF ValidEntry(args.dataset, file)
        THEN opened' = opened \cup {<<"validate", file.name>>}
        ELSE UNCHANGED opened
    /\ vi' = vi + 1
    /\ UNCHANGED <<pc, err, args, listing, listing2, ai, out, data, split_seen, printed>>
    /\ UNCHANGED <<wvars, tvars>>

\* One iteration of the loop of lines 93-97.  An h5py.File that fails to
\* open raises; nothing catches it and the script ends.
ValidateStep ==
    /\ pc = "validate"
    /\ vi <= Len(listing)
    /\ LET file == listing[vi] IN
        IF ValidEntry(args.dataset, file)
        THEN /\ opened' = opened \cup {<<"validate", file.name>>}
             /\ IF file.opens
                THEN vi' = vi + 1 /\ UNCHANGED <<pc, err>>
                ELSE pc' = "error" /\ err' = "OSError" /\ UNCHANGED vi
        ELSE vi' = vi + 1 /\ UNCHANGED <<opened, pc, err>>
    /\ UNCHANGED <<args, listing, listing2, ai, out, data, split_seen, printed>>
    /\ UNCHANGED <<wvars, tvars>>

\* Lines 99-101, reached when the validation loop is exhausted:
\* h5py.File(args.out, "w") creates (truncates) the output, then "data".
CreateOutput ==
    /\ pc = "validate"
    /\ vi > Len(listing)
    /\ out' = "open"
    /\ data' = <<>>
    /\ ai' = 1
    /\ listing2' \in SecondListings(listing, args)                          \* 103
    /\ pc' = "assemble"
    /\ UNCHANGED <<args, listing, vi, opened, err, split_seen, printed>>
    /\ UNCHANGED <<wvars, tvars>>

\* An exception inside the `with` of line 99: the file is closed by the
\* context manager and the script ends.
Raise(e) ==
    /\ pc' = "error"
    /\ err' = e
    /\ out' = "closed"
    /\ UNCHANGED ai

\* One iteration of the loop of lines 103-151.
AssembleStep ==
    /\ pc = "assemble"
    /\ ai <= Len(listing2)
    /\ LET aloha_demo == listing2[ai] IN
        IF ~ValidEntry(args.dataset, aloha_demo)
        THEN ai' = ai + 1 /\ UNCHANGED <<opened, data, pc, err, out>>           \* 104-105
        ELSE
          /\ opened' = opened \cup {<<"assemble", aloha_demo.name>>}             \* 109
          /\ IF ~aloha_demo.opens
             THEN Raise("OSError") /\ UNCHANGED data
             ELSE IF ~HasDemoNumber(aloha_demo.name)
             THEN Raise("IndexError") /\ UNCHANGED data                         \* 110
             ELSE LET name == DemoGroupName(demo_number(aloha_demo.name)) IN
               IF CreateGroupRaises(data, name)
               THEN Raise("ValueError") /\ UNCHANGED data                       \* 111
               ELSE LET r == FillGroup(NewGroup(name, aloha_demo.name),
                                       aloha_demo.h5, args) IN
                 /\ data' = Append(data, r.group)
                 /\ IF r.err = "none"
                    THEN ai' = ai + 1 /\ UNCHANGED <<pc, err, out>>
                    ELSE Raise(r.err)
    /\ UNCHANGED <<args, listing, listing2, vi, split_seen, printed>>
    /\ UNCHANGED <<wvars, tvars>>

\* (mutant) the split is called inside the `with`: the file is still open
CloseOutput_inside ==
    /\ pc = "assemble"
    /\ ai > Len(listing2)
    /\ pc' = "split"
    /\ UNCHANGED <<args, listing, listing2, vi, ai, out, data, opened, err, split_seen, printed>>
    /\ UNCHANGED <<wvars, tvars>>

\* The loop of line 103 is exhausted: the `with` of line 99 closes the file.
CloseOutput ==
    /\ pc = "assemble"
    /\ ai > Len(listing2)
    /\ out' = "closed"
    /\ pc' = "split"
    /\ UNCHANGED <<args, listing, listing2, vi, ai, data, opened, err, split_seen, printed>>
    /\ UNCHANGED <<wvars, tvars>>

\* Line 164: split_train_val_from_hdf5 (robomimic) reads the demo names of
\* the closed file and attaches the filter keys; it returns or raises.
SplitTrainVal ==
    /\ pc = "split"
    /\ split_seen' = [ran |-> TRUE, demos |-> GroupNames(data)]
    /\ \E returns \in BOOLEAN :
        IF returns THEN pc' = "split_done" /\ UNCHANGED err
        ELSE pc' = "error" /\ err' = "SplitError"
    /\ UNCHANGED <<args, listing, listing2, vi, ai, out, data, opened, printed>>
    /\ UNCHANGED <<wvars, tvars>>

\* Line 167
PrintSuccess ==
    /\ pc = "split_done"
    /\ printed' = TRUE
    /\ pc' = "done"
    /\ UNCHANGED <<args, listing, listing2, vi, ai, out, data, opened, err, split_seen>>
    /\ UNCHANGED <<wvars, tvars>>

Next ==
    \/ ValidateStep
    \/ CreateOutput
    \/ AssembleStep
    \/ CloseOutput
    \/ SplitTrainVal
    \/ PrintSuccess

Spec == Init /\ [][Next]_vars

(***************************************************************************)
(* The trajectory-window computation alone (lines 141-143 with 43-53):     *)
(* the position sequence, the stride and the horizon are drawn from        *)
(* bounded sets, plus the 20-frame episode with stride 4 and horizon 10.   *)
(***************************************************************************)
Points == {<<1, 2, 3>>, <<4, 5, 6>>}

SeqsUpTo(S, n) == UNION {[1..m -> S] : m \in 1..n}

\* 20 pairwise different positions
Episode20 == [t \in 1..20 |-> <<t - 1, 100 + t, 200 + t>>]

InitWin ==
    /\ ConvIdle /\ TrainIdle
    /\ w_pc = "start"
    /\ future_traj_data = <<>>
    /\ \/ /\ arr \in SeqsUpTo(Points, MaxN)
          /\ gap \in 1..MaxGap
          /\ count \in 1..MaxCount
       \/ /\ arr = Episode20
          /\ gap = HAND_POINT_GAP
          /\ count = HAND_FUTURE_POINTS_COUNT

ComputeWindows ==
    /\ w_pc = "start"
    /\ future_traj_data' = FutureTrajData(arr, gap, count)
    /\ w_pc' = "done"
    /\ UNCHANGED <<arr, gap, count>>
    /\ UNCHANGED <<cvars, tvars>>

NextWin == ComputeWindows

SpecWin == InitWin /\ [][NextWin]_vars

(***************************************************************************)
(* Claims                                                                  *)
(***************************************************************************)
\* the positions at the 0-based indices `idx` of `positions`, concatenated
RECURSIVE ConcatAt(_, _)
ConcatAt(positions, idx) ==
    IF idx = <<>> THEN <<>>
    ELSE positions[Head(idx) + 1] \o ConcatAt(positions, Tail(idx))

\* the 0-based indices min(N-1, i + k*gap), k = 1..horizon, of window i
ClampedIndices(N, i, stride, horizon) ==
    [k \in 1..horizon |-> Min(N - 1, i + k * stride)]

ExpectedWindow(positions, i, stride, horizon) ==
    ConcatAt(positions, ClampedIndices(Len(positions), i, stride, horizon))

\* C1: for every position sequence of length N >= 1, stride >= 1 and
\* horizon >= 1 there is exactly one window per index i in 0..N-1, window i
\* is the concatenation for k = 1..horizon of the position at index
\* min(N-1, i + k*stride) of the full sequence, and it has width 3*horizon;
\* with N = 20, stride 4, horizon 10 the indices are 4,8,12,16,19,...,19 for
\* i = 0 and 19 ten times for i = 19.
C1_WindowsClampToLast ==
    w_pc = "done" =>
        /\ Len(future_traj_data) = Len(arr)
        /\ \A i \in 0..(Len(arr) - 1) :
              /\ Len(future_traj_data[i + 1]) = 3 * count
              /\ future_traj_data[i + 1] = ExpectedWindow(arr, i, gap, count)
        /\ (Len(arr) = 20 /\ gap = 4 /\ count = 10) =>
              /\ future_traj_data[1] = ConcatAt(arr, <<4, 8, 12, 16, 19, 19, 19, 19, 19, 19>>)
              /\ future_traj_data[20] = ConcatAt(arr, [k \in 1..10 |-> 19])

\* the 20-frame example was computed, and its first window is clamped from the fifth point on
C1_Witness ==
    /\ w_pc = "done"
    /\ Len(arr) = 20 /\ gap = 4 /\ count = 10
    /\ Len(future_traj_data) = 20
    /\ SubSeq(future_traj_data[1], 10, 15) = arr[17] \o arr[20]
    /\ arr[17] # arr[20]

(***************************************************************************)
(* Claims about the conversion run                                         *)
(***************************************************************************)
Idx == 1..Len(listing)

\* the entry is a candidate for the script (the joined path passes is_valid_path)
IsCandidate(i) == ValidEntry(args.dataset, listing[i])

\* the entry is an episode file by its own name
NameIsEpisode(i) == ~listing[i].isdir /\ StrIn(S_episode, listing[i].name)

\* the same for the listing the assembly loop iterates over
Idx2 == 1..Len(listing2)
IsCandidate2(i) == ValidEntry(args.dataset, listing2[i])
NameIsEpisode2(i) == ~listing2[i].isdir /\ StrIn(S_episode, listing2[i].name)

\* the entries the validation pass opened successfully
Validated == {i \in Idx : <<"validate", listing[i].name>> \in opened /\ listing[i].opens}

\* C2: the validation pass over all candidate files completes before the
\* output container is created or written; if a candidate fails to open
\* during validation the run aborts and the output is never created.
C2_ValidateAllBeforeOutput ==
    /\ out # "absent" =>
          /\ vi > Len(listing)
          /\ \A i \in Idx : (IsCandidate(i) \/ NameIsEpisode(i)) => i \in Validated
    /\ (\E i \in Idx : (IsCandidate(i) \/ NameIsEpisode(i)) /\ ~listing[i].opens) =>
          /\ out = "absent" /\ data = <<>>
          /\ pc \in {"validate", "error"}
          /\ pc = "error" => err = "OSError"
          /\ vi > Len(listing) => pc = "error"

\* the second candidate fails to open after the first one opened: the run
\* has aborted and there is no output
C2_Witness ==
    /\ pc = "error" /\ err = "OSError" /\ out = "absent"
    /\ vi = 2
    /\ 1 \in Validated

\* C3: a run that ends in a fatal error leaves no partially written
\* container: no terminated-with-error state in which the output holds only
\* some of the demo groups, or a demo group missing some of its fields.
C3_NoPartialOutputOnError ==
    pc = "error" =>
        \/ out = "absent"
        \/ /\ \A k \in 1..Len(data) : Complete(data[k])
           /\ Len(data) \in {0, Cardinality({i \in Idx2 : IsCandidate2(i)})}

\* C4: an entry that is a directory, or whose file name does not contain
\* "episode", is never opened, in the validation pass or in the assembly
\* pass, whatever the path of the source directory is.
C4_NonEpisodeNeverOpened ==
    /\ \A i \in Idx :
          ~NameIsEpisode(i) =>
            \A pass \in {"validate", "assemble"} : <<pass, listing[i].name>> \notin opened
    /\ \A i \in Idx2 :
          ~NameIsEpisode2(i) =>
            \A pass \in {"validate", "assemble"} : <<pass, listing2[i].name>> \notin opened

\* C5: after a run that completes successfully the groups under data are
\* exactly demo_<n> for the validated episode files <stem>_<n>.<ext>: one
\* group per validated episode, named by the number in the file name.
C5_GroupsAreValidatedEpisodes ==
    pc = "done" =>
        /\ \A i \in Validated : listing[i].numbered
        /\ GroupNames(data) = {S_demo_ \o listing[i].num : i \in Validated}
        /\ Len(data) = Cardinality(Validated)
        /\ Cardinality(GroupNames(data)) = Cardinality(Validated)

\* episode_3.* and episode_7.* were converted: exactly demo_3 and demo_7
C5_Witness ==
    /\ pc = "done"
    /\ {listing[i].name : i \in Idx} =
          {NumberedName(S_episode, <<"3">>, S_hdf5), NumberedName(S_episode, <<"7">>, S_hdf5)}
    /\ GroupNames(data) = {S_demo_ \o <<"3">>, S_demo_ \o <<"7">>}

\* the assembly loop stands at a candidate whose demo index is already in the container
AtDuplicate ==
    /\ pc = "assemble" /\ ai <= Len(listing2)
    /\ IsCandidate2(ai) /\ listing2[ai].opens /\ listing2[ai].numbered
    /\ (S_demo_ \o listing2[ai].num) \in GroupNames(data)

\* C6: when two accepted files map to the same demo index the run fails
\* with an error at the second one and the group already written for that
\* index is not modified; the demo indices in the container are always unique.
C6_DuplicateIndexIsError ==
    /\ [](\A k, m \in 1..Len(data) : k # m => data[k].name # data[m].name)
    /\ [][AtDuplicate => (pc' = "error" /\ err' = "ValueError" /\ data' = data)]_vars

\* episode_3.hdf5 was written, episode_3.h5 then failed on the existing group
C6_Witness ==
    /\ pc = "error" /\ err = "ValueError"
    /\ Len(listing2) = 2 /\ ai = 2
    /\ listing2[1].num = <<"3">> /\ listing2[2].num = <<"3">>
    /\ Len(data) = 1 /\ Complete(data[1]) /\ data[1].name = S_demo_ \o <<"3">>

\* C7: the split is computed only after every demo record of the run has
\* been completely written and the container closed; no demo group is
\* created or modified after the split starts; the split never runs if
\* assembly ended in an error; the success message is printed only after
\* the split returned.
C7_SplitAfterAllWrites ==
    /\ [](split_seen.ran =>
            /\ out = "closed"
            /\ \A k \in 1..Len(data) : Complete(data[k])
            /\ Len(data) = Cardinality({i \in Idx2 : IsCandidate2(i)})
            /\ split_seen.demos = GroupNames(data)
            /\ err \in {"none", "SplitError"})
    /\ []((pc = "error" /\ err # "SplitError") => ~split_seen.ran)
    /\ [](printed => (split_seen.ran /\ err = "none" /\ pc = "done"))
    /\ [][(pc \in {"split", "split_done", "done"} \/ split_seen.ran)
             => (data' = data /\ out' = out)]_vars
    /\ [][(~printed /\ printed') => pc = "split_done"]_vars

\* two episodes were written and split, and the message was printed
C7_Witness ==
    /\ printed /\ split_seen.ran
    /\ Cardinality(split_seen.demos) = 2

\* the entry a group was made from
SourceOf(g) == CHOOSE i \in Idx2 : listing2[i].name = g.src

\* the arrays of the episode file all have leading length T
SharesLength(h5, T) ==
    /\ Len(h5.action) = T /\ Len(h5.qpos) = T
    /\ h5.cam_high = T /\ h5.cam_right_wrist = T

\* C8: for every demo record written from an episode whose time-indexed
\* arrays all share the leading length T, num_samples = T, every
\* time-indexed field has length num_samples, and actions holds exactly
\* num_samples windows.
C8_LengthsEqualNumSamples ==
    \A k \in 1..Len(data) :
        LET g == data[k]
            h5 == listing2[SourceOf(g)].h5
            T == Len(h5.action)
        IN  SharesLength(h5, T) =>
              /\ "num_samples" \in g.written => g.num_samples = T
              /\ "front_img_1" \in g.written => g.front_img_1 = g.num_samples
              /\ "right_wrist_img" \in g.written => g.right_wrist_img = g.num_samples
              /\ "joint_positions" \in g.written => Len(g.joint_positions.rows) = g.num_samples
              /\ "ee_pose" \in g.written => Len(g.ee_pose) = g.num_samples
              /\ "actions" \in g.written => Len(g.actions) = g.num_samples
              /\ "actions_joints" \in g.written => Len(g.actions_joints.rows) = g.num_samples
              /\ "actions_xyz" \in g.written => Len(g.actions_xyz) = g.num_samples

\* a complete record of a 6-frame episode is in the container
C8_Witness ==
    \E k \in 1..Len(data) :
        /\ Complete(data[k])
        /\ SharesLength(listing2[SourceOf(data[k])].h5, 6)
        /\ data[k].num_samples = 6 /\ Len(data[k].actions) = 6

\* the windows of stride `stride` and horizon `horizon` over the positions
ExpectedWindows(positions, stride, horizon) ==
    [i1 \in 1..Len(positions) |-> ExpectedWindow(positions, i1 - 1, stride, horizon)]

\* C10: within one run the source type fixes both the label and the window
\* parameters of every record: hand gives label 1 with stride 4 and horizon
\* 10, robot gives label 0 with stride 15 and horizon 10; no record combines
\* the label of one type with the stride of the other.
C10_TypeFixesLabelAndWindows ==
    \A k \in 1..Len(data) :
        LET g == data[k] IN
        /\ "label" \in g.written =>
              /\ args.data_type = "hand" => g.label = 1
              /\ args.data_type = "robot" => g.label = 0
        /\ "actions" \in g.written =>
              /\ g.label = 1 => g.actions = ExpectedWindows(g.ee_pose, 4, 10)
              /\ g.label = 0 => g.actions = ExpectedWindows(g.ee_pose, 15, 10)
              /\ \A w \in 1..Len(g.actions) : Len(g.actions[w]) = 3 * 10

\* a hand record whose stride-4 windows differ from the stride-15 ones
C10_Witness ==
    \E k \in 1..Len(data) :
        /\ Complete(data[k])
        /\ args.data_type = "hand" /\ data[k].label = 1
        /\ data[k].actions = ExpectedWindows(data[k].ee_pose, 4, 10)
        /\ data[k].actions # ExpectedWindows(data[k].ee_pose, 15, 10)

(***************************************************************************)
(* The training entry point: pl_train.main up to config.lock (lines        *)
(* 33-129).  None is the string "None".  Of the config only the keys main  *)
(* reads or the claims speak of are kept.  t_args.loaded is the config     *)
(* that config_factory + update (lines 35-40) or json_to_config (line 43)  *)
(* yields for the files named on the command line.                         *)
(***************************************************************************)
NameArgs == {"None", "exp_a", "debug_run"}
Profilers == {"none", "simple"}
Freqs == {1, 2}

LoadedConfigs ==
    [name : {"cfg_name"}, validation_freq : Freqs, every_n_epochs : Freqs,
     video_freq : Freqs, num_epochs : {100}, log_wandb : {TRUE}, locked : {FALSE}]

\* --description (lines 175-181): None by default, else a string
S_DT == <<"D","T">>
S_run == <<"r","u","n">>
S_time == <<"2","0","2","6">>       \* the strftime text of line 302, abstracted
NoDescription == [none |-> TRUE, s |-> <<>>]
Descriptions ==
    { NoDescription,
      [none |-> FALSE, s |-> S_run],
      [none |-> FALSE, s |-> S_run \o <<"_">> \o S_DT \o <<"_">> \o S_time] }

TrainArgs ==
    [config : {"None", "cfg.json"}, ckpt_path : {"None", "m.ckpt"},
     name : NameArgs, debug : BOOLEAN, profiler : Profilers, no_wandb : BOOLEAN,
     eval : BOOLEAN, description : Descriptions, loaded : LoadedConfigs]

\* args = train_argparse() (line 299)
InitTrain ==
    /\ ConvIdle /\ WinIdle
    /\ t_pc = "entry"
    /\ t_args \in TrainArgs
    /\ config = <<>>
    /\ t_call = [fn |-> "none", raised |-> "none", value |-> "None"]
    /\ stdout = <<>>

\* f"{args.description}_DT_{...strftime(...)}" (line 302)
TimeStamped(description) == description \o <<"_">> \o S_DT \o <<"_">> \o S_time

\* Lines 301-305 of the script: `"DT" not in args.description` raises
\* TypeError when --description was not given and --eval is not set, and
\* main is never called; otherwise the description gets its time stamp
\* (unless it holds "DT" or --eval is set) and main is called.
EntryPoint ==
    /\ t_pc = "entry"
    /\ IF t_args.eval
       THEN t_pc' = "start" /\ UNCHANGED t_args
       ELSE IF t_args.description.none
       THEN t_pc' = "error" /\ UNCHANGED t_args          \* TypeError at line 301
       ELSE IF ~StrIn(S_DT, t_args.description.s)
       THEN /\ t_args' = [t_args EXCEPT !.description.s = TimeStamped(@)]
            /\ t_pc' = "start"
       ELSE t_pc' = "start" /\ UNCHANGED t_args
    /\ UNCHANGED <<config, t_call, stdout>>
    /\ UNCHANGED <<wvars, cvars>>

\* lines 34-45
LoadConfig ==
    /\ t_pc = "start"
    /\ IF t_args.config # "None" \/ t_args.ckpt_path # "None"
       THEN config' = t_args.loaded /\ t_pc' = "loaded"
       ELSE t_pc' = "error" /\ UNCHANGED config       \* assert False
    /\ UNCHANGED <<t_args, t_call, stdout>>
    /\ UNCHANGED <<wvars, cvars>>

\* lines 57-58 (of the overrides of lines 48-73, the one of the experiment name)
OverrideName(cfg, a) == IF a.name # "None" THEN [cfg EXCEPT !.name = a.name] ELSE cfg

ApplyOverrides ==
    /\ t_pc = "loaded"
    /\ config' = OverrideName(config, t_args)
    /\ t_pc' = "overridden"
    /\ UNCHANGED <<t_args, t_call, stdout>>
    /\ UNCHANGED <<wvars, cvars>>

\* lines 75-116
ModeAdjust(cfg, a) ==
    IF a.debug
    THEN [cfg EXCEPT !.num_epochs = 10, !.log_wandb = FALSE,
                     !.validation_freq = 2, !.every_n_epochs = 2, !.video_freq = 2,
                     !.name = "debug_run"]
    ELSE IF a.profiler # "none"
    THEN [cfg EXCEPT !.num_epochs = 1, !.log_wandb = FALSE]
    ELSE cfg

AdjustForMode ==
    /\ t_pc = "overridden"
    /\ config' = ModeAdjust(config, t_args)
    /\ t_pc' = "adjusted"
    /\ UNCHANGED <<t_args, t_call, stdout>>
    /\ UNCHANGED <<wvars, cvars>>

\* lines 121-129: --no-wandb, the two asserts, config.lock()
LockConfig ==
    /\ t_pc = "adjusted"
    /\ LET cfg == IF t_args.no_wandb THEN [config EXCEPT !.log_wandb = FALSE] ELSE config IN
        IF /\ cfg.validation_freq % cfg.every_n_epochs = 0
           /\ cfg.validation_freq = cfg.video_freq
        THEN config' = [cfg EXCEPT !.locked = TRUE] /\ t_pc' = "locked"
        ELSE config' = cfg /\ t_pc' = "error"           \* AssertionError
    /\ UNCHANGED <<t_args, t_call, stdout>>
    /\ UNCHANGED <<wvars, cvars>>

(***************************************************************************)
(* Lines 131-146: the guarded call.  train and eval are pl_train_utils:    *)
(* a call returns a value or raises.  What it raises is either an          *)
(* instance of Exception or one of the other BaseExceptions                *)
(* (KeyboardInterrupt, SystemExit), which `except Exception` lets through. *)
(* train returns None, rollout statistics json.dumps accepts, or an object *)
(* json.dumps raises TypeError on.                                         *)
(***************************************************************************)
MSG_SUCCESS == "finished run successfully!"
MSG_FAILED == "run failed with error"
MSG_STATS == "Rollout Success Rate Stats"

Raisables == {"none", "Exception", "BaseException"}
TrainValues == {"None", "stats", "unserializable"}

CallOutcomes ==
    {[raised |-> "none", value |-> v] : v \in TrainValues}
      \cup {[raised |-> r, value |-> "None"] : r \in Raisables \ {"none"}}

\* json.dumps(important_stats, indent=4) (line 140)
json_dumps_raises(v) == v = "unserializable"
json_dumps(v) == IF v = "None" THEN "null" ELSE "json(stats)"

\* lines 143-146: print(res_str), then the statistics unless important_stats is None
PrintTail(res_str, important_stats) ==
    IF important_stats # "None"
    THEN <<res_str, MSG_STATS, important_stats>>
    ELSE <<res_str>>

\* (mutant) the handler leaves res_str as it was
OnException_keep(res_str) == res_str

\* line 142: the handler of `except Exception`
OnException(res_str) == MSG_FAILED

\* Lines 132-146 for one outcome of the call: where main ends
\* ("returned" or "propagated") and what it printed.
MainTail(is_eval, o) ==
    LET res_str == MSG_SUCCESS                                          \* 132
        important_stats == "None"                                       \* 133
    IN  IF o.raised = "BaseException"
        THEN [pc |-> "propagated", stdout |-> <<>>]                     \* not caught by 141
        ELSE IF o.raised = "Exception"
        THEN [pc |-> "returned",
              stdout |-> PrintTail(OnException(res_str), important_stats)]
        ELSE IF is_eval
        THEN [pc |-> "returned", stdout |-> <<>>]                       \* 137
        ELSE IF json_dumps_raises(o.value)                              \* 140 raises TypeError
        THEN [pc |-> "returned",
              stdout |-> PrintTail(OnException(res_str), o.value)]
        ELSE [pc |-> "returned",
              stdout |-> PrintTail(res_str, json_dumps(o.value))]

RunTrainOrEval ==
    /\ t_pc = "locked"
    /\ \E o \in CallOutcomes :
        /\ t_args.eval => o.value = "None"
        /\ t_call' = [fn |-> IF t_args.eval THEN "eval" ELSE "train",
                      raised |-> o.raised, value |-> o.value]
        /\ t_pc' = MainTail(t_args.eval, o).pc
        /\ stdout' = MainTail(t_args.eval, o).stdout
    /\ UNCHANGED <<t_args, config>>
    /\ UNCHANGED <<wvars, cvars>>

NextTrain ==
    \/ EntryPoint
    \/ LoadConfig
    \/ ApplyOverrides
    \/ AdjustForMode
    \/ LockConfig
    \/ RunTrainOrEval

SpecTrain == InitTrain /\ [][NextTrain]_vars

\* C9: whenever the name argument is provided, the experiment name in the
\* final locked config equals that argument, in every mode (normal, debug,
\* profiler).
C9_NameArgumentWins ==
    (t_pc = "locked" /\ t_args.name # "None") => config.name = t_args.name

InStdout(m) == \E k \in 1..Len(stdout) : stdout[k] = m

\* main has ended after the train / eval call
MainEnded == t_pc \in {"returned", "propagated"}

\* C11 as stated: any exception raised by the train or eval call is caught
\* inside main: main never propagates it, terminates normally, prints the
\* 'run failed with error' message instead of 'finished run successfully!'
\* and no rollout statistics; the success message is printed only when
\* train returned without raising.
C11_AnyExceptionCaught ==
    /\ (MainEnded /\ t_call.raised # "none") =>
          /\ t_pc = "returned"
          /\ stdout = <<MSG_FAILED>>
    /\ InStdout(MSG_SUCCESS) => (t_call.fn = "train" /\ t_call.raised = "none")

\* C11 (amended): an exception raised by the train or eval call that is an
\* instance of Exception is caught inside main: main returns normally and
\* prints only the 'run failed with error' message, no success message and
\* no rollout statistics; a raised BaseException that is not an Exception
\* (KeyboardInterrupt, SystemExit) propagates out of main with nothing
\* printed; the success message is printed only when train returned
\* without raising.
C11_ExceptionCaught ==
    /\ (MainEnded /\ t_call.raised = "Exception") =>
          /\ t_pc = "returned"
          /\ stdout = <<MSG_FAILED>>
    /\ (MainEnded /\ t_call.raised = "BaseException") =>
          /\ t_pc = "propagated"
          /\ stdout = <<>>
    /\ InStdout(MSG_SUCCESS) => (t_call.fn = "train" /\ t_call.raised = "none")
    /\ t_pc = "propagated" => t_call.raised = "BaseException"

\* train raised an Exception: main returned and printed the failure message alone
C11_Witness ==
    /\ t_pc = "returned"
    /\ t_call.fn = "train" /\ t_call.raised = "Exception"
    /\ stdout = <<MSG_FAILED>>

====
